---- MODULE Spec2Model ----
(***************************************************************************)
(* A model of the mp2i Discord bot: the database wrappers, the paginator,  *)
(* the registration handlers, the professor verification, the tickets,     *)
(* the suggestions, the profile editor and the school commands.            *)
(*                                                                         *)
(* Each subsystem has its own variables, its own initial predicate and its *)
(* own next-state relation; a specification runs one subsystem and leaves  *)
(* the variables of the others parked at a fixed value.                    *)
(***************************************************************************)
EXTENDS Integers, Sequences, FiniteSets, TLC

VARIABLES
    \* ---- wrappers (src/mp2i/wrappers/member.py, guild.py)
    memberRow,      \* the row of the member in table "members"
    guildRow,       \* the row of the guild in table "guilds"
    memberModel,    \* MemberWrapper.__model of each wrapper object
    guildModel,     \* GuildWrapper.__model of each wrapper object
    wlast,          \* the wrapper call that returned last
    \* ---- paginator (src/mp2i/utils/paginator.py)
    pKind,          \* "embed" (EmbedPaginator) or "components" (ComponentsPaginator)
    pAuthor,        \* Paginator.author
    pEntries,       \* Paginator.entries
    pPerPage,       \* Paginator.entries_per_page
    pPage,          \* Paginator.page
    pState,         \* "built" after __init__, "sent" after send
    pView,          \* what create_embeds_and_view built last: entries and buttons
    pDisplayed,     \* what the message shows (the last edit that went through)
    pLast,          \* the interaction handled last
    \* ---- registration (src/mp2i/wrappers/*.py, src/mp2i/cogs/welcome.py, ...)
    rGuilds,        \* table "guilds": the guild_id of each row
    rUsers,         \* table "users": the user_id of each row
    rMembers,       \* table "members": <<guild_id, user_id>> of each row
    rObj,           \* the MemberWrapper built last: its member, its __model, and
                    \* whether the SELECT of its constructor was executed
    rLast,          \* the register() call that ended last
    \* ---- professor verification (src/mp2i/cogs/roles.py)
    vAcademies,     \* table "academies": the rows, as (guild_id, domain_name)
    vGuild,         \* member.guild.id
    vPc,            \* where _prof_verification stands
    vCode,          \* verification_code
    vTrail,         \* what has happened so far, in order
    vRole,          \* the member has the role
    vSent,          \* the messages the handler sent to the member, in order
    vLost,          \* the messages whose member.send raised
    vRaised,        \* the call that raised first, "none" while none did
    vEnd,           \* the branch the handler ended in
    \* ---- tickets (src/mp2i/cogs/ticket.py)
    tMax,           \* the guild's configuration: tickets.max
    tChannel,       \* the guild's configuration names a ticket channel
    tThreads,       \* the threads of the ticket channel
    tTickets,       \* table "tickets": the member's rows
    tPc,            \* where each ticket:level interaction stands
    tThread,        \* the thread each interaction created
    tLevel,         \* the level each interaction asked for
    tReply,         \* the response each interaction got
    \* ---- suggestions (src/mp2i/cogs/suggestions/suggestion.py)
    sRow,           \* table "suggestions": the row of the suggestion
    sThread,        \* the suggestion's thread is active, so in the guild's cache
    sClock,         \* datetime.datetime.now()
    sPc,            \* where each close modal stands
    sStaff,         \* the staff member each modal was sent to
    sChoice,        \* what each modal was submitted with
    sReply,         \* the response each close command or modal got
    \* ---- profiles (src/mp2i/cogs/profile)
    fRoles,         \* who holds the Administrateur or Modérateur role
    fView,          \* the ProfileView sent last
    fLast,          \* the click on "Modifier le profil" handled last
    \* ---- schools (src/mp2i/cogs/school)
    hPromotions,    \* table "promotions": how many rows per member and school
    hReferent,      \* table "schools": referent_id of each school
    hLast,          \* the command handled last
    \* ---- startup (src/mp2i/__main__.py)
    mConfig,        \* utils.config._config: "empty" or "loaded"
    mToken,         \* the environment: MP2I__DISCORD_BOT_TOKEN
    mEngine,        \* database.engine is set up
    mTables,        \* the database has the table "guilds"
    mPc,            \* where main stands
    mPassed,        \* the checks that passed, in order
    mBot,           \* the bot: "none", "created" or "started"
    \* ---- cog loading (src/mp2i/bot.py)
    eFiles,         \* the files os.walk yields under the cogs directory, in order
    eNext,          \* the file setup_hook looks at next
    eAttempted,     \* the files load_extension was called for
    eLoaded,        \* the files whose extension is loaded
    eLogged,        \* the files whose failure was logged
    eSyncs,         \* how many times tree.sync was called
    \* ---- message counter (src/mp2i/cogs/leaderboard.py)
    lRows,          \* table "members": the row of each author that has one
    lHandled,       \* the guild messages of each author handled so far
    lExecuted,      \* those of them whose SELECT and UPDATE were executed
    lLast           \* the kind of the handler that ran last

wvars == <<memberRow, guildRow, memberModel, guildModel, wlast>>
pvars == <<pKind, pAuthor, pEntries, pPerPage, pPage, pState, pView, pDisplayed, pLast>>
rvars == <<rGuilds, rUsers, rMembers, rObj, rLast>>
vvars == <<vAcademies, vGuild, vPc, vCode, vTrail, vRole, vSent, vLost, vRaised, vEnd>>
tvars == <<tMax, tChannel, tThreads, tTickets, tPc, tThread, tLevel, tReply>>
svars == <<sRow, sThread, sClock, sPc, sStaff, sChoice, sReply>>
fvars == <<fRoles, fView, fLast>>
hvars == <<hPromotions, hReferent, hLast>>
mvars == <<mConfig, mToken, mEngine, mTables, mPc, mPassed, mBot>>
evars == <<eFiles, eNext, eAttempted, eLoaded, eLogged, eSyncs>>
lvars == <<lRows, lHandled, lExecuted, lLast>>

vars == <<wvars, pvars, rvars, vvars, tvars, svars, fvars, hvars, mvars, evars, lvars>>

\* the variables of the other subsystems, for each subsystem
wOthers == <<lvars, evars, mvars, hvars, pvars, rvars, vvars, tvars, svars, fvars>>
pOthers == <<lvars, evars, mvars, hvars, wvars, rvars, vvars, tvars, svars, fvars>>
rOthers == <<lvars, evars, mvars, hvars, wvars, pvars, vvars, tvars, svars, fvars>>
vOthers == <<lvars, evars, mvars, hvars, wvars, pvars, rvars, tvars, svars, fvars>>
tOthers == <<lvars, evars, mvars, hvars, wvars, pvars, rvars, vvars, svars, fvars>>
sOthers == <<lvars, evars, mvars, hvars, wvars, pvars, rvars, vvars, tvars, fvars>>
fOthers == <<lvars, evars, mvars, hvars, wvars, pvars, rvars, vvars, tvars, svars>>
hOthers == <<lvars, evars, mvars, wvars, pvars, rvars, vvars, tvars, svars, fView, fLast>>
mOthers == <<lvars, evars, wvars, pvars, rvars, vvars, tvars, svars, fvars, hvars>>
eOthers == <<lvars, wvars, pvars, rvars, vvars, tvars, svars, fvars, hvars, mvars>>
lOthers == <<wvars, pvars, rvars, vvars, tvars, svars, fvars, hvars, mvars, evars>>

\* Python's None where an object (a model, a Result) is expected
None == [none |-> TRUE]

\* Python's None in a nullable integer column (ids and colours are positive)
NoneId == 0

(***************************************************************************)
(* Bounds of the model                                                     *)
(***************************************************************************)
NumWrappers == 2     \* wrapper objects alive at the same time
MaxCount == 1        \* message_count is counted up to this value
MaxId == 1           \* message ids and colours are drawn from 1..MaxId

MaxEntries == 4      \* a paginator holds up to this many entries
MaxPerPage == 3      \* entries_per_page is drawn from 1..MaxPerPage
NumUsers == 2        \* users that interact with the bot

NumGuilds == 2       \* guilds the bot is in
NumRegGuilds == 1    \* guilds whose members are registered
NumRegUsers == 1     \* users that join the guilds

MaxMsgLen == 2       \* a DM reply holds up to this many characters
NumInteractions == 2 \* the ticket:level interactions of the member
MaxTickets == 2      \* tickets.max goes up to this
NumModals == 2       \* the close commands run on the suggestion
MaxPromotions == 1   \* the guild's configuration: promotions.max
MaxFiles == 3        \* the cogs directory holds up to this many files
MaxMessages == 3     \* the messages update_message_counter handles

Wrappers == 1..NumWrappers
Guilds == 1..NumGuilds
RegGuilds == 1..NumRegGuilds
RegUsers == 1..NumRegUsers
Users == 1..NumUsers
OptIds == {NoneId} \cup (1..MaxId)

(***************************************************************************)
(* Wrappers                                                                *)
(***************************************************************************)

\* MemberModel columns the wrapper reads and writes (defaults of the model)
MemberModelDefault == [message_count |-> 0, profile_colour |-> NoneId]

\* GuildModel columns the wrapper reads and writes (defaults of the model)
GuildModelDefault == [roles_message_id |-> NoneId, suggestion_message_id |-> NoneId]

\* .values(**kwargs) of an UPDATE applied to a row
Values(row, kwargs) ==
    [f \in DOMAIN row |-> IF f \in DOMAIN kwargs THEN kwargs[f] ELSE row[f]]

\* database_executor.execute of UPDATE ... RETURNING: the Result holding the
\* updated row, or None when the statement or its commit raised (rolled back)
execute_update(row, kwargs, ok) ==
    IF ok THEN Values(row, kwargs) ELSE None

\* database_executor.execute of a SELECT of the row: the row, or None on failure
execute_select(row, ok) ==
    IF ok THEN row ELSE None

\* _update: the model the wrapper holds after the call; on a failed UPDATE the
\* method only logs and the model the wrapper already holds is kept
update_model(model, result) ==
    IF result = None THEN model ELSE result

\* the row after the UPDATE
update_row(row, result) ==
    IF result = None THEN row ELSE result

\* MemberWrapper.__init__: fetch and cache the row
MemberWrapperInit(w, ok) ==
    /\ memberModel' = [memberModel EXCEPT ![w] = execute_select(memberRow, ok)]
    /\ wlast' = [kind |-> "member", w |-> w, op |-> "init", ok |-> ok]
    /\ UNCHANGED <<memberRow, guildRow, guildModel, wOthers>>

\* GuildWrapper.__init__ (fetch = True): fetch and cache the row
GuildWrapperInit(w, ok) ==
    /\ guildModel' = [guildModel EXCEPT ![w] = execute_select(guildRow, ok)]
    /\ wlast' = [kind |-> "guild", w |-> w, op |-> "init", ok |-> ok]
    /\ UNCHANGED <<memberRow, guildRow, memberModel, wOthers>>

\* MemberWrapper.message_count_increment
message_count_increment(w, ok) ==
    /\ memberModel[w] # None
    /\ memberModel[w].message_count < MaxCount
    /\ LET result == execute_update(memberRow,
                        [message_count |-> memberModel[w].message_count + 1], ok)
       IN  /\ memberRow' = update_row(memberRow, result)
           /\ memberModel' = [memberModel EXCEPT ![w] = update_model(@, result)]
    /\ wlast' = [kind |-> "member", w |-> w, op |-> "message_count_increment", ok |-> ok]
    /\ UNCHANGED <<guildRow, guildModel, wOthers>>

\* MemberWrapper.profile_colour setter: the cached model is assigned first,
\* then the UPDATE is sent
set_profile_colour(w, colour, ok) ==
    /\ memberModel[w] # None
    /\ LET assigned == [memberModel[w] EXCEPT !.profile_colour = colour]
           result == execute_update(memberRow, [profile_colour |-> colour], ok)
       IN  /\ memberRow' = update_row(memberRow, result)
           /\ memberModel' = [memberModel EXCEPT ![w] = update_model(assigned, result)]
    /\ wlast' = [kind |-> "member", w |-> w, op |-> "profile_colour", ok |-> ok]
    /\ UNCHANGED <<guildRow, guildModel, wOthers>>

\* GuildWrapper.roles_message_id setter
set_roles_message_id(w, id, ok) ==
    /\ guildModel[w] # None
    /\ LET assigned == [guildModel[w] EXCEPT !.roles_message_id = id]
           result == execute_update(guildRow,
                        [roles_message_id |-> assigned.roles_message_id], ok)
       IN  /\ guildRow' = update_row(guildRow, result)
           /\ guildModel' = [guildModel EXCEPT ![w] = update_model(assigned, result)]
    /\ wlast' = [kind |-> "guild", w |-> w, op |-> "roles_message_id", ok |-> ok]
    /\ UNCHANGED <<memberRow, memberModel, wOthers>>

\* GuildWrapper.suggestions_message setter (message is a message id or None)
set_suggestions_message(w, message, ok) ==
    /\ guildModel[w] # None
    /\ LET assigned == [guildModel[w] EXCEPT !.suggestion_message_id = message]
           result == execute_update(guildRow,
                        [suggestion_message_id |-> assigned.suggestion_message_id], ok)
       IN  /\ guildRow' = update_row(guildRow, result)
           /\ guildModel' = [guildModel EXCEPT ![w] = update_model(assigned, result)]
    /\ wlast' = [kind |-> "guild", w |-> w, op |-> "suggestions_message", ok |-> ok]
    /\ UNCHANGED <<memberRow, memberModel, wOthers>>

\* the wrappers when another subsystem runs
WParked ==
    /\ memberRow = MemberModelDefault
    /\ guildRow = GuildModelDefault
    /\ memberModel = [w \in Wrappers |-> MemberModelDefault]
    /\ guildModel = [w \in Wrappers |-> GuildModelDefault]
    /\ wlast = [kind |-> "none", w |-> 0, op |-> "init", ok |-> TRUE]

\* the rows exist with their defaults and every wrapper object has fetched them
WInit ==
    /\ memberRow = MemberModelDefault
    /\ guildRow = GuildModelDefault
    /\ memberModel = [w \in Wrappers |-> MemberModelDefault]
    /\ guildModel = [w \in Wrappers |-> GuildModelDefault]
    /\ wlast = [kind |-> "none", w |-> 0, op |-> "init", ok |-> TRUE]

WNext ==
    \/ \E w \in Wrappers, ok \in BOOLEAN : MemberWrapperInit(w, ok)
    \/ \E w \in Wrappers, ok \in BOOLEAN : GuildWrapperInit(w, ok)
    \/ \E w \in Wrappers, ok \in BOOLEAN : message_count_increment(w, ok)
    \/ \E w \in Wrappers, c \in OptIds, ok \in BOOLEAN : set_profile_colour(w, c, ok)
    \/ \E w \in Wrappers, id \in OptIds, ok \in BOOLEAN : set_roles_message_id(w, id, ok)
    \/ \E w \in Wrappers, m \in OptIds, ok \in BOOLEAN : set_suggestions_message(w, m, ok)

(***************************************************************************)
(* Paginator                                                               *)
(***************************************************************************)

\* Python's a // b (floor division) for b # 0
FloorDiv(a, b) ==
    IF b > 0 THEN a \div b ELSE (0 - a) \div (0 - b)

\* Python's min
Min(a, b) == IF a < b THEN a ELSE b

\* Python's entries[start:end] for 0 <= start
Slice(entries, start, end) ==
    SubSeq(entries, start + 1, Min(end, Len(entries)))

\* the mutant of max_page_number: the division rounds down
max_page_number_floor(entries, per_page) ==
    IF Len(entries) = 0 THEN 1 ELSE FloorDiv(Len(entries), per_page)

\* Paginator.max_page_number
max_page_number(entries, per_page) ==
    IF Len(entries) = 0 THEN 1 ELSE 0 - FloorDiv(Len(entries), 0 - per_page)

\* the entries of the current page: entries[start:end] of _create_embed and of
\* ComponentsPaginator.create_embeds_and_view
page_entries(entries, per_page, page) ==
    LET start == (page - 1) * per_page
        end == Min(start + per_page, Len(entries))
    IN  Slice(entries, start, end)

\* Paginator._create_buttons: the disabled flags and the indicator label
create_buttons(page, max) ==
    [prev_disabled |-> page = 1, indicator |-> <<page, max>>,
     next_disabled |-> page = max]

\* a view without buttons
NoButtons == [none |-> TRUE]

\* EmbedPaginator.create_embeds_and_view: the buttons are replaced when there
\* is more than one page, otherwise the children of the view are left alone
embed_create_embeds_and_view(children) ==
    LET max == max_page_number(pEntries, pPerPage)
    IN  [entries |-> page_entries(pEntries, pPerPage, pPage'),
         buttons |-> IF max > 1 THEN create_buttons(pPage', max) ELSE children]

\* ComponentsPaginator.create_embeds_and_view: the children are removed and a
\* new container is built, with buttons when there is more than one page
components_create_embeds_and_view ==
    LET max == max_page_number(pEntries, pPerPage)
    IN  [entries |-> page_entries(pEntries, pPerPage, pPage'),
         buttons |-> IF max > 1 THEN create_buttons(pPage', max) ELSE NoButtons]

\* create_embeds_and_view of the class of the paginator
create_embeds_and_view ==
    IF pKind = "embed" THEN embed_create_embeds_and_view(pView.buttons)
                       ELSE components_create_embeds_and_view

\* the mutant of interaction_check: everybody passes
interaction_check_anyone(user) == TRUE

\* Paginator.interaction_check: its return value
interaction_check(user) == user = pAuthor

\* the mutant of the condition of _on_next: the last page is not excluded
can_next_unbounded(page, max) == page <= max

\* the condition of _on_prev
can_prev(page) == page > 1

\* the condition of _on_next
can_next(page, max) == page < max

\* Paginator._update: rebuild the view and edit the message; when both
\* edit_message and edit_original_response raise the message keeps what it shows
update(ok) ==
    /\ pView' = create_embeds_and_view
    /\ pDisplayed' = IF ok THEN pView' ELSE pDisplayed

\* Paginator.send: build the view and show it
send ==
    /\ pState = "built"
    /\ pState' = "sent"
    /\ pPage' = pPage
    /\ pView' = create_embeds_and_view
    /\ pDisplayed' = pView'
    /\ pLast' = [op |-> "send", user |-> pAuthor, allowed |-> TRUE,
                 before |-> pPage, sent |-> "send"]
    /\ UNCHANGED <<pKind, pAuthor, pEntries, pPerPage, pOthers>>

\* the refusal of interaction_check: an ephemeral message, nothing else
refuse(op, user) ==
    /\ pLast' = [op |-> op, user |-> user, allowed |-> FALSE,
                 before |-> pPage, sent |-> "refusal"]
    /\ UNCHANGED <<pKind, pAuthor, pEntries, pPerPage, pPage, pState, pView, pDisplayed>>

\* a click on the previous button: interaction_check, then _on_prev
on_prev(user, ok) ==
    /\ pState = "sent"
    /\ pDisplayed.buttons # NoButtons
    /\ UNCHANGED pOthers
    /\ IF ~interaction_check(user) THEN refuse("prev", user)
       ELSE /\ IF can_prev(pPage)
               THEN /\ pPage' = pPage - 1
                    /\ update(ok)
                    /\ pLast' = [op |-> "prev", user |-> user, allowed |-> TRUE,
                                 before |-> pPage, sent |-> "edit"]
               ELSE /\ UNCHANGED <<pPage, pView, pDisplayed>>
                    /\ pLast' = [op |-> "prev", user |-> user, allowed |-> TRUE,
                                 before |-> pPage, sent |-> "none"]
            /\ UNCHANGED <<pKind, pAuthor, pEntries, pPerPage, pState>>

\* a click on the next button: interaction_check, then _on_next
on_next(user, ok) ==
    /\ pState = "sent"
    /\ pDisplayed.buttons # NoButtons
    /\ UNCHANGED pOthers
    /\ IF ~interaction_check(user) THEN refuse("next", user)
       ELSE /\ IF can_next(pPage, max_page_number(pEntries, pPerPage))
               THEN /\ pPage' = pPage + 1
                    /\ update(ok)
                    /\ pLast' = [op |-> "next", user |-> user, allowed |-> TRUE,
                                 before |-> pPage, sent |-> "edit"]
               ELSE /\ UNCHANGED <<pPage, pView, pDisplayed>>
                    /\ pLast' = [op |-> "next", user |-> user, allowed |-> TRUE,
                                 before |-> pPage, sent |-> "none"]
            /\ UNCHANGED <<pKind, pAuthor, pEntries, pPerPage, pState>>

\* a paginator as its constructor leaves it, built with entries_per_page >= 1
\* and a page among its pages; the view has no children yet
PInit ==
    /\ pKind \in {"embed", "components"}
    /\ pAuthor \in Users
    /\ pEntries \in {[i \in 1..n |-> i] : n \in 0..MaxEntries}
    /\ pPerPage \in 1..MaxPerPage
    /\ pPage \in 1..max_page_number(pEntries, pPerPage)
    /\ pState = "built"
    /\ pView = [entries |-> <<>>, buttons |-> NoButtons]
    /\ pDisplayed = [entries |-> <<>>, buttons |-> NoButtons]
    /\ pLast = [op |-> "none", user |-> pAuthor, allowed |-> TRUE,
                before |-> pPage, sent |-> "none"]

\* the paginator when another subsystem runs
PParked ==
    /\ pKind = "embed"
    /\ pAuthor = 1
    /\ pEntries = <<>>
    /\ pPerPage = 1
    /\ pPage = 1
    /\ pState = "built"
    /\ pView = [entries |-> <<>>, buttons |-> NoButtons]
    /\ pDisplayed = [entries |-> <<>>, buttons |-> NoButtons]
    /\ pLast = [op |-> "none", user |-> 1, allowed |-> TRUE,
                before |-> 1, sent |-> "none"]

PNext ==
    \/ send
    \/ \E u \in Users, ok \in BOOLEAN : on_prev(u, ok)
    \/ \E u \in Users, ok \in BOOLEAN : on_next(u, ok)

(***************************************************************************)
(* Registration                                                            *)
(***************************************************************************)

\* the number of rows of a table with the given key (a table is the bag of
\* the keys of its rows)
Rows(table, key) == table[key]

\* the table with one more row of the given key
AddRow(table, key) == [table EXCEPT ![key] = @ + 1]

\* SELECT ... WHERE key: the model, or None (FALSE) when there is no row or the
\* executor returned None
fetch(table, key, ok) == ok /\ Rows(table, key) > 0

\* database_executor.execute of an INSERT: the statement goes through when the
\* database executes it, the key is not taken (primary key, UniqueConstraint)
\* and the rows its foreign keys name exist; otherwise the executor returns None
insert_result(table, key, fk, ok) == ok /\ Rows(table, key) = 0 /\ fk

\* the mutant of the first test of register(): the model is not looked at
register_never_early(model) == FALSE

\* "if self.__model: return self.__model", the first test of register()
register_returns_early(model) == model

\* the outcome of a register(): the table after it, whether it INSERTed, what
\* it raised, and whether every statement it ran was executed by the database
Outcome(table, inserted, raised, dbok) ==
    [table |-> table, inserted |-> inserted, raised |-> raised, dbok |-> dbok]

\* UserWrapper.register on a wrapper holding model
user_register(u, model, okI) ==
    IF register_returns_early(model)
    THEN Outcome(rUsers, FALSE, "none", TRUE)
    ELSE IF insert_result(rUsers, u, TRUE, okI)
         THEN Outcome(AddRow(rUsers, u), TRUE, "none", okI)
         ELSE Outcome(rUsers, TRUE, "InsertException(user)", okI)

\* GuildWrapper.register on a wrapper holding model
guild_register(g, model, okI) ==
    IF register_returns_early(model)
    THEN Outcome(rGuilds, FALSE, "none", TRUE)
    ELSE IF insert_result(rGuilds, g, TRUE, okI)
         THEN Outcome(AddRow(rGuilds, g), TRUE, "none", okI)
         ELSE Outcome(rGuilds, TRUE, "InsertException(guild)", okI)

\* MemberWrapper.register on a wrapper holding model: the user is registered
\* first (UserWrapper(user).register(), whose exception propagates), then the
\* member is inserted; users is the table "users" after the first step
member_register(g, u, model, users, okI) ==
    IF register_returns_early(model)
    THEN Outcome(rMembers, FALSE, "none", TRUE)
    ELSE IF insert_result(rMembers, <<g, u>>,
                          Rows(rGuilds, g) > 0 /\ Rows(users, u) > 0, okI)
         THEN Outcome(AddRow(rMembers, <<g, u>>), TRUE, "none", okI)
         ELSE Outcome(rMembers, TRUE, "InsertException(member)", okI)

\* the effect of MemberWrapper.register() on a wrapper of (g, u) holding model
MemberRegisterCall(op, g, u, model, okFM, okFU, okIU, okIM) ==
    LET uw == user_register(u, fetch(rUsers, u, okFU), okIU)
        early == register_returns_early(model)
        userRaised == ~early /\ uw.raised # "none"
        mw == member_register(g, u, model, uw.table, okIM)
    IN  /\ rUsers' = IF early THEN rUsers ELSE uw.table
        /\ rMembers' = IF userRaised THEN rMembers ELSE mw.table
        /\ rObj' = [g |-> g, u |-> u, fetched |-> okFM,
                    model |-> IF userRaised THEN model ELSE (mw.raised = "none")]
        /\ rLast' = [op |-> op, g |-> g, u |-> u, found |-> model,
                     inserts |-> (IF ~early /\ uw.inserted THEN {"users"} ELSE {})
                         \cup (IF ~userRaised /\ mw.inserted THEN {"members"} ELSE {}),
                     raised |-> IF userRaised THEN uw.raised ELSE mw.raised,
                     dbok |-> /\ okFM
                              /\ early \/ (okFU /\ uw.dbok)
                              /\ userRaised \/ mw.dbok]
        /\ UNCHANGED <<rGuilds, rOthers>>

\* Welcome.register_member and MemberRegistration.register_member (on_member_join),
\* and each turn of the member loops of register_guild and of
\* register_guild_and_members: MemberWrapper(member).register()
register_member(g, u, okFM, okFU, okIU, okIM) ==
    MemberRegisterCall("member", g, u, fetch(rMembers, <<g, u>>, okFM),
                       okFM, okFU, okIU, okIM)

\* register() called once more on the MemberWrapper built last
register_again(okFU, okIU, okIM) ==
    /\ rObj.g \in RegGuilds
    /\ MemberRegisterCall("again", rObj.g, rObj.u, rObj.model, rObj.fetched,
                          okFU, okIU, okIM)

\* GuildWrapper(guild).register() of register_guild (on_guild_join) and of
\* register_guild_and_members (on_ready)
register_guild(g, okF, okI) ==
    LET model == fetch(rGuilds, g, okF)
        gw == guild_register(g, model, okI)
    IN  /\ rGuilds' = gw.table
        /\ rLast' = [op |-> "guild", g |-> g, u |-> 0, found |-> model,
                     inserts |-> IF gw.inserted THEN {"guilds"} ELSE {},
                     raised |-> gw.raised, dbok |-> okF /\ gw.dbok]
        /\ UNCHANGED <<rUsers, rMembers, rObj, rOthers>>

\* UserWrapper(user).register() on its own
register_user(u, okF, okI) ==
    LET model == fetch(rUsers, u, okF)
        uw == user_register(u, model, okI)
    IN  /\ rUsers' = uw.table
        /\ rLast' = [op |-> "user", g |-> 0, u |-> u, found |-> model,
                     inserts |-> IF uw.inserted THEN {"users"} ELSE {},
                     raised |-> uw.raised, dbok |-> okF /\ uw.dbok]
        /\ UNCHANGED <<rGuilds, rMembers, rObj, rOthers>>

\* a database whose tables are empty, and no wrapper built
RInit ==
    /\ rGuilds = [g \in RegGuilds |-> 0]
    /\ rUsers = [u \in RegUsers |-> 0]
    /\ rMembers = [m \in RegGuilds \X RegUsers |-> 0]
    /\ rObj = [g |-> 0, u |-> 0, fetched |-> TRUE, model |-> FALSE]
    /\ rLast = [op |-> "none", g |-> 0, u |-> 0, found |-> FALSE, inserts |-> {},
                raised |-> "none", dbok |-> TRUE]

\* the registration when another subsystem runs
RParked == RInit

RNext ==
    \/ \E g \in RegGuilds, u \in RegUsers, okFM, okFU, okIU, okIM \in BOOLEAN :
          register_member(g, u, okFM, okFU, okIU, okIM)
    \/ \E okFU, okIU, okIM \in BOOLEAN : register_again(okFU, okIU, okIM)
    \/ \E g \in RegGuilds, okF, okI \in BOOLEAN : register_guild(g, okF, okI)
    \/ \E u \in RegUsers, okF, okI \in BOOLEAN : register_user(u, okF, okI)

(***************************************************************************)
(* Professor verification                                                  *)
(***************************************************************************)

\* the characters of a message: two letters and the blank
Chars == {"a", "b", " "}

\* the contents a DM reply can have
RECURSIVE Strings(_)
Strings(n) ==
    IF n = 0 THEN {<<>>}
    ELSE Strings(n - 1) \cup {Append(t, c) : t \in Strings(n - 1), c \in Chars}

Contents == Strings(MaxMsgLen)

\* the domain names an academy can have, and the codes that can be generated
DomainNames == {<<"a">>, <<"a", "b">>}
Codes == {<<"b">>, <<"a", "b">>}

\* str.strip(): the blanks at both ends removed
RECURSIVE LStrip(_)
LStrip(t) == IF t # <<>> /\ Head(t) = " " THEN LStrip(Tail(t)) ELSE t

RECURSIVE RStrip(_)
RStrip(t) ==
    IF t # <<>> /\ t[Len(t)] = " " THEN RStrip(SubSeq(t, 1, Len(t) - 1)) ELSE t

Strip(t) == RStrip(LStrip(t))

\* literal(received_message).endswith(AcademyModel.domain_name)
EndsWith(t, suffix) ==
    /\ Len(suffix) <= Len(t)
    /\ SubSeq(t, Len(t) - Len(suffix) + 1, Len(t)) = suffix

\* the rows the SELECT of the academies returns
matching_academies(received) ==
    {a \in vAcademies : a.guild_id = vGuild /\ EndsWith(received, a.domain_name)}

\* the mutant of the comparison of the reply with the code: any reply passes
code_differs_never(code, content) == FALSE

\* "verification_code != message.content.strip()"
code_differs(code, content) == code # Strip(content)

\* the text that explains each way the verification fails
Explanation(end) ==
    CASE end = "db_down" -> "msg_db_down"
      [] end = "no_academy" -> "msg_no_academy"
      [] end = "mail_failure" -> "msg_no_mail"
      [] end = "wrong_code" -> "msg_wrong_code"
      [] end = "timeout" -> "msg_timeout"
      [] OTHER -> "msg_error"

\* a member.send inside the try block that ends the handler: when it raises,
\* "except Exception" sends the error message, and when that raises too the
\* exception leaves the handler
SendAndReturn(msg, end, ok, okErr) ==
    /\ vEnd' = end
    /\ vSent' = IF ok THEN Append(vSent, msg) ELSE vSent \o <<msg, "msg_error">>
    /\ vLost' = vLost \cup (IF ok THEN {} ELSE {msg})
                      \cup (IF ~ok /\ ~okErr THEN {"msg_error"} ELSE {})
    /\ vRaised' = IF ok THEN vRaised ELSE msg
    /\ vPc' = IF ok \/ okErr THEN "returned" ELSE "raised"

\* "except asyncio.TimeoutError": the message is sent from the handler of the
\* exception, so an exception of the send leaves _prof_verification
SendTimeout(ok) ==
    /\ vEnd' = "timeout"
    /\ vSent' = Append(vSent, "msg_timeout")
    /\ vLost' = vLost \cup (IF ok THEN {} ELSE {"msg_timeout"})
    /\ vRaised' = IF ok THEN vRaised ELSE "msg_timeout"
    /\ vPc' = IF ok THEN "returned" ELSE "raised"

\* _prof_verification up to the first wait_for: the greeting, sent outside of
\* the try block
prof_greet(ok) ==
    /\ vPc = "start"
    /\ vSent' = Append(vSent, "msg_greetings")
    /\ vLost' = vLost \cup (IF ok THEN {} ELSE {"msg_greetings"})
    /\ vRaised' = IF ok THEN vRaised ELSE "msg_greetings"
    /\ vPc' = IF ok THEN "wait1" ELSE "raised"
    /\ UNCHANGED <<vAcademies, vGuild, vCode, vTrail, vRole, vEnd, vOthers>>

\* the first wait_for times out
prof_first_timeout(ok) ==
    /\ vPc = "wait1"
    /\ SendTimeout(ok)
    /\ UNCHANGED <<vAcademies, vGuild, vCode, vTrail, vRole, vOthers>>

\* the first wait_for returns a message of the DM channel: the academy is
\* looked up, the code generated and mailed, the follow-up sent
prof_first_reply(content, dbOk, code, mailOk, ok, okErr) ==
    /\ vPc = "wait1"
    /\ LET received == Strip(content)
       IN  IF ~dbOk
           THEN /\ SendAndReturn("msg_db_down", "db_down", ok, okErr)
                /\ UNCHANGED <<vCode, vTrail>>
           ELSE IF matching_academies(received) = {}
           THEN /\ SendAndReturn("msg_no_academy", "no_academy", ok, okErr)
                /\ UNCHANGED <<vCode, vTrail>>
           ELSE IF ~mailOk
           THEN /\ SendAndReturn("msg_no_mail", "mail_failure", ok, okErr)
                /\ vCode' = code
                /\ vTrail' = Append(vTrail, "academy")
           ELSE /\ vCode' = code
                /\ vTrail' = vTrail \o <<"academy", "mail">>
                /\ IF ok
                   THEN /\ vSent' = Append(vSent, "msg_followup")
                        /\ vPc' = "wait2"
                        /\ UNCHANGED <<vLost, vRaised, vEnd>>
                   ELSE SendAndReturn("msg_followup", "exception", ok, okErr)
    /\ UNCHANGED <<vAcademies, vGuild, vRole, vOthers>>

\* the second wait_for times out
prof_second_timeout(ok) ==
    /\ vPc = "wait2"
    /\ SendTimeout(ok)
    /\ UNCHANGED <<vAcademies, vGuild, vCode, vTrail, vRole, vOthers>>

\* what the trail keeps of the second reply: whether it was the code
replied_code(content) == IF Strip(content) = vCode THEN <<"code">> ELSE <<>>

\* the second wait_for returns a message of the DM channel: the code is
\* compared, the role added and the member told
prof_second_reply(content, addOk, ok, okErr) ==
    /\ vPc = "wait2"
    /\ IF code_differs(vCode, content)
       THEN /\ SendAndReturn("msg_wrong_code", "wrong_code", ok, okErr)
            /\ UNCHANGED <<vTrail, vRole>>
       ELSE IF ~addOk
       THEN \* member.add_roles raises: "except Exception" sends the error message
            /\ vEnd' = "exception"
            /\ vSent' = Append(vSent, "msg_error")
            /\ vLost' = vLost \cup (IF okErr THEN {} ELSE {"msg_error"})
            /\ vRaised' = "add_roles"
            /\ vPc' = IF okErr THEN "returned" ELSE "raised"
            /\ vTrail' = vTrail \o replied_code(content)
            /\ UNCHANGED vRole
       ELSE /\ vRole' = TRUE
            /\ vTrail' = vTrail \o replied_code(content) \o <<"role">>
            /\ SendAndReturn("msg_role_given", "given", ok, okErr)
    /\ UNCHANGED <<vAcademies, vGuild, vCode, vOthers>>

\* a member without the role asks for it in a guild with some academies
VInit ==
    /\ vAcademies \in SUBSET [guild_id : Guilds, domain_name : DomainNames]
    /\ vGuild \in Guilds
    /\ vPc = "start"
    /\ vCode = <<>>
    /\ vTrail = <<>>
    /\ vRole = FALSE
    /\ vSent = <<>>
    /\ vLost = {}
    /\ vRaised = "none"
    /\ vEnd = "none"

\* the verification when another subsystem runs
VParked ==
    /\ vAcademies = {}
    /\ vGuild = 1
    /\ vPc = "start"
    /\ vCode = <<>>
    /\ vTrail = <<>>
    /\ vRole = FALSE
    /\ vSent = <<>>
    /\ vLost = {}
    /\ vRaised = "none"
    /\ vEnd = "none"

VNext ==
    \/ \E ok \in BOOLEAN : prof_greet(ok)
    \/ \E ok \in BOOLEAN : prof_first_timeout(ok)
    \/ \E content \in Contents, code \in Codes, dbOk, mailOk, ok, okErr \in BOOLEAN :
          prof_first_reply(content, dbOk, code, mailOk, ok, okErr)
    \/ \E ok \in BOOLEAN : prof_second_timeout(ok)
    \/ \E content \in Contents, addOk, ok, okErr \in BOOLEAN :
          prof_second_reply(content, addOk, ok, okErr)

(***************************************************************************)
(* Tickets                                                                 *)
(***************************************************************************)

Interactions == 1..NumInteractions

TicketLevels == {"ADMINISTRATOR", "MODERATOR"}

\* GuildWrapper.max_ticket, which the cog reads as guild.get_max_ticket
max_ticket == tMax

\* "filter(lambda t: not t.closed, member_wrapper.tickets)"
open_tickets == {t \in tTickets : ~t.closed}

\* the thread_id the next created thread gets
new_thread == Cardinality(tThreads) + 1

\* other_open_ticket, then _open_ticket up to its first await: the limit is
\* checked against the rows, the level read, the channel looked up, and
\* channel.create_thread awaited
other_open_ticket(i, values) ==
    /\ tPc[i] = "idle"
    /\ IF Cardinality(open_tickets) >= max_ticket
       THEN /\ tReply' = [tReply EXCEPT ![i] = "too_many"]
            /\ tPc' = [tPc EXCEPT ![i] = "done"]
            /\ UNCHANGED tLevel
       ELSE IF values = <<>>
       THEN /\ tReply' = [tReply EXCEPT ![i] = "no_level"]
            /\ tPc' = [tPc EXCEPT ![i] = "done"]
            /\ UNCHANGED tLevel
       ELSE IF ~tChannel
       THEN /\ tReply' = [tReply EXCEPT ![i] = "no_channel"]
            /\ tPc' = [tPc EXCEPT ![i] = "done"]
            /\ UNCHANGED tLevel
       ELSE /\ tPc' = [tPc EXCEPT ![i] = "create_thread"]
            /\ tLevel' = [tLevel EXCEPT ![i] = values[1]]
            /\ UNCHANGED tReply
    /\ UNCHANGED <<tMax, tChannel, tThreads, tTickets, tThread, tOthers>>

\* _open_ticket: channel.create_thread returns, the opening message is sent
\* and pinned (two more awaits)
open_ticket_thread(i) ==
    /\ tPc[i] = "create_thread"
    /\ tThreads' = tThreads \cup {new_thread}
    /\ tThread' = [tThread EXCEPT ![i] = new_thread]
    /\ tPc' = [tPc EXCEPT ![i] = "pin"]
    /\ UNCHANGED <<tMax, tChannel, tTickets, tLevel, tReply, tOthers>>

\* _open_ticket: message.pin returns, the row is inserted (closed defaults to
\* False; the executor returns None on a failure), the staff is mentioned
\* and the interaction answered
open_ticket_insert(i, ok) ==
    /\ tPc[i] = "pin"
    /\ tTickets' = IF ok
                   THEN tTickets \cup
                        {[thread_id |-> tThread[i], level |-> tLevel[i], closed |-> FALSE]}
                   ELSE tTickets
    /\ tReply' = [tReply EXCEPT ![i] = "opened"]
    /\ tPc' = [tPc EXCEPT ![i] = "done"]
    /\ UNCHANGED <<tMax, tChannel, tThreads, tThread, tLevel, tOthers>>

\* close_ticket by a member of the staff in the thread of an open ticket
close_ticket(thread) ==
    /\ \E t \in tTickets :
          /\ t.thread_id = thread
          /\ ~t.closed
          /\ tTickets' = (tTickets \ {t}) \cup {[t EXCEPT !.closed = TRUE]}
    /\ UNCHANGED <<tMax, tChannel, tThreads, tPc, tThread, tLevel, tReply, tOthers>>

\* a registered member without tickets, in a guild with some configuration
TInit ==
    /\ tMax \in 0..MaxTickets
    /\ tChannel \in BOOLEAN
    /\ tThreads = {}
    /\ tTickets = {}
    /\ tPc = [i \in Interactions |-> "idle"]
    /\ tThread = [i \in Interactions |-> 0]
    /\ tLevel = [i \in Interactions |-> "ADMINISTRATOR"]
    /\ tReply = [i \in Interactions |-> "none"]

\* the tickets when another subsystem runs
TParked ==
    /\ tMax = 0
    /\ tChannel = FALSE
    /\ tThreads = {}
    /\ tTickets = {}
    /\ tPc = [i \in Interactions |-> "idle"]
    /\ tThread = [i \in Interactions |-> 0]
    /\ tLevel = [i \in Interactions |-> "ADMINISTRATOR"]
    /\ tReply = [i \in Interactions |-> "none"]

TNext ==
    \/ \E i \in Interactions, values \in {<<>>} \cup {<<l>> : l \in TicketLevels} :
          other_open_ticket(i, values)
    \/ \E i \in Interactions : open_ticket_thread(i)
    \/ \E i \in Interactions, ok \in BOOLEAN : open_ticket_insert(i, ok)
    \/ \E thread \in Interactions : close_ticket(thread)

(***************************************************************************)
(* Suggestions                                                             *)
(***************************************************************************)

Modals == 1..NumModals

\* the statuses SuggestionCloseModal offers
CloseStatuses == {"CLOSED", "ACCEPTED", "REJECTED"}

\* the values of the modal's text input
Reasons == {"", "r"}

\* a text column that holds NULL
NullText == "NULL"

\* the row of a suggestion as _create_suggestion leaves it
SuggestionDefault ==
    [suggestion_status |-> "OPEN", staff_id |-> NoneId,
     staff_description |-> NullText, suggestion_handled_date |-> NoneId]

\* close_command: the suggestion is selected WHERE suggestion_status = OPEN
\* and the modal sent
close_command(m, staff) ==
    /\ sPc[m] = "idle"
    /\ IF sRow.suggestion_status = "OPEN"
       THEN /\ sPc' = [sPc EXCEPT ![m] = "modal"]
            /\ sStaff' = [sStaff EXCEPT ![m] = staff]
            /\ UNCHANGED sReply
       ELSE /\ sPc' = [sPc EXCEPT ![m] = "done"]
            /\ sReply' = [sReply EXCEPT ![m] = "not_found"]
            /\ UNCHANGED sStaff
    /\ UNCHANGED <<sRow, sThread, sClock, sChoice, sOthers>>

\* SuggestionCloseModal.on_submit, then _close_suggestion up to its first
\* await: the thread is looked up in the guild's cache
on_submit(m, status, reason) ==
    /\ sPc[m] = "modal"
    /\ sChoice' = [sChoice EXCEPT ![m] = [status |-> status, reason |-> reason]]
    /\ IF ~sThread
       THEN /\ sPc' = [sPc EXCEPT ![m] = "done"]
            /\ sReply' = [sReply EXCEPT ![m] = "closed"]
       ELSE /\ sPc' = [sPc EXCEPT ![m] = "edit"]
            /\ sReply' = [sReply EXCEPT ![m] = "closing"]
    /\ UNCHANGED <<sRow, sThread, sClock, sStaff, sOthers>>

\* _close_suggestion: the message is edited and its reactions cleared, then the
\* UPDATE runs WHERE guild_id and suggestion_id, and thread.edit is awaited
close_suggestion_update(m) ==
    /\ sPc[m] = "edit"
    /\ sClock' = sClock + 1
    /\ sRow' = [suggestion_status |-> sChoice[m].status,
                staff_id |-> sStaff[m],
                staff_description |-> sChoice[m].reason,
                suggestion_handled_date |-> sClock']
    /\ sPc' = [sPc EXCEPT ![m] = "archive"]
    /\ UNCHANGED <<sThread, sStaff, sChoice, sReply, sOthers>>

\* _close_suggestion: thread.edit(locked=True, archived=True) returns, and
\* on_submit edits its response
close_suggestion_archive(m) ==
    /\ sPc[m] = "archive"
    /\ sThread' = FALSE
    /\ sPc' = [sPc EXCEPT ![m] = "done"]
    /\ sReply' = [sReply EXCEPT ![m] = "closed"]
    /\ UNCHANGED <<sRow, sClock, sStaff, sChoice, sOthers>>

\* an open suggestion with its thread
SInit ==
    /\ sRow = SuggestionDefault
    /\ sThread = TRUE
    /\ sClock = 0
    /\ sPc = [m \in Modals |-> "idle"]
    /\ sStaff = [m \in Modals |-> NoneId]
    /\ sChoice = [m \in Modals |-> [status |-> "CLOSED", reason |-> ""]]
    /\ sReply = [m \in Modals |-> "none"]

\* the suggestions when another subsystem runs
SParked == SInit

SNext ==
    \/ \E m \in Modals, staff \in Users : close_command(m, staff)
    \/ \E m \in Modals, status \in CloseStatuses, reason \in Reasons :
          on_submit(m, status, reason)
    \/ \E m \in Modals : close_suggestion_update(m)
    \/ \E m \in Modals : close_suggestion_archive(m)

(***************************************************************************)
(* Profiles                                                                *)
(***************************************************************************)

\* has_any_roles_predicate(interaction, "Administrateur", "Modérateur"), once
\* awaited: True for a holder of one of the roles, MissingAnyRole otherwise
has_any_roles_predicate(user) == IF fRoles[user] THEN "True" ELSE "MissingAnyRole"

\* the truth value of has_any_roles_predicate(...) where the call is not
\* awaited: that of the coroutine object
unawaited_predicate(user) == TRUE

\* "interaction.user.id != self._member.id and not has_any_roles_predicate(...)"
callback_refuses(user, member) ==
    user # member /\ ~unawaited_predicate(user)

\* _generate_profile: the view has the button when the user is the member or
\* the predicate returned True
generate_profile(user, member, ephemeral) ==
    LET is_mod == has_any_roles_predicate(user) = "True"
    IN  [invoker |-> user, member |-> member,
         editable |-> (user = member \/ is_mod), ephemeral |-> ephemeral]

\* /profile: the response is deferred in public, so the view is a message of
\* the channel
profile_command(user, member) ==
    /\ fView' = generate_profile(user, member, FALSE)
    /\ UNCHANGED <<fRoles, fLast, fOthers>>

\* "Voir le profil": the response is deferred ephemeral, so only the user
\* sees the view
view_profile_menu(user, member) ==
    /\ fView' = generate_profile(user, member, TRUE)
    /\ UNCHANGED <<fRoles, fLast, fOthers>>

\* ProfileModifyButton.callback: a user who sees the button clicks it
callback(user) ==
    /\ fView # None
    /\ fView.editable
    /\ fView.ephemeral => user = fView.invoker
    /\ fLast' = [user |-> user, member |-> fView.member,
                 reply |-> IF callback_refuses(user, fView.member)
                           THEN "refused" ELSE "editor"]
    /\ UNCHANGED <<fRoles, fView, fOthers>>

\* the members of a guild, some of them staff, and no profile shown yet
FInit ==
    /\ fRoles \in [Users -> BOOLEAN]
    /\ fView = None
    /\ fLast = None

\* the profiles when another subsystem runs
FParked ==
    /\ fRoles = [u \in Users |-> FALSE]
    /\ fView = None
    /\ fLast = None

FNext ==
    \/ \E user, member \in Users : profile_command(user, member)
    \/ \E user, member \in Users : view_profile_menu(user, member)
    \/ \E user \in Users : callback(user)

(***************************************************************************)
(* Schools                                                                 *)
(***************************************************************************)

\* school_id of the guild's school
Schools == {1}

\* the names /school join and /school leave are given: a school's, or one
\* that no school has
SchoolNames == Schools \cup {NoneId}

\* GuildWrapper.max_promotions
max_promotions == MaxPromotions

\* len(member.promotions)
RECURSIVE promotions_in(_, _)
promotions_in(member, schools) ==
    IF schools = {} THEN 0
    ELSE LET school == CHOOSE x \in schools : TRUE
         IN  hPromotions[member, school] + promotions_in(member, schools \ {school})

promotions_count(member) == promotions_in(member, Schools)

\* _find_school: the reply it sends when it returns None, "found" otherwise
find_school(name, dbOk) ==
    IF ~dbOk THEN "db_down"
    ELSE IF name \notin Schools THEN "not_found"
    ELSE "found"

\* the mutant of the gate of /school join: nobody is refused
join_refuses_never(user, member) == FALSE

\* /school join: "if interaction.user.id != member.id", then the awaited
\* predicate and "except MissingAnyRole"
join_refuses(user, member) ==
    user # member /\ has_any_roles_predicate(user) = "MissingAnyRole"

\* /school leave: the same gate
leave_refuses(user, member) ==
    user # member /\ has_any_roles_predicate(user) = "MissingAnyRole"

\* what hLast keeps of a command: a stranger is an invoker who is neither the
\* target nor staff
Handled(op, user, member, reply) ==
    [op |-> op, stranger |-> (user # member /\ ~fRoles[user]), reply |-> reply]

\* /school join, add_member_to_school included
join_school(user, member, name, dbOk, insertOk) ==
    /\ IF join_refuses(user, member)
       THEN /\ hLast' = Handled("join", user, member, "refused")
            /\ UNCHANGED hPromotions
       ELSE IF find_school(name, dbOk) # "found"
       THEN /\ hLast' = Handled("join", user, member, find_school(name, dbOk))
            /\ UNCHANGED hPromotions
       ELSE IF promotions_count(member) >= max_promotions
       THEN /\ hLast' = Handled("join", user, member, "too_many")
            /\ UNCHANGED hPromotions
       ELSE IF ~insertOk
       THEN /\ hLast' = Handled("join", user, member, "deferred")
            /\ UNCHANGED hPromotions
       ELSE /\ hLast' = Handled("join", user, member, "joined")
            /\ hPromotions' = [hPromotions EXCEPT ![member, name] = @ + 1]
    /\ UNCHANGED <<hReferent, fRoles, hOthers>>

\* /school leave, remove_member_from_school included; without the referent
\* role in the configuration _remove_old_referent answers an interaction that
\* is already deferred, which raises
leave_school(user, member, name, dbOk, roleOk) ==
    /\ IF leave_refuses(user, member)
       THEN /\ hLast' = Handled("leave", user, member, "refused")
            /\ UNCHANGED <<hPromotions, hReferent>>
       ELSE IF find_school(name, dbOk) # "found"
       THEN /\ hLast' = Handled("leave", user, member, find_school(name, dbOk))
            /\ UNCHANGED <<hPromotions, hReferent>>
       ELSE IF hPromotions[member, name] = 0
       THEN /\ hLast' = Handled("leave", user, member, "not_member")
            /\ UNCHANGED <<hPromotions, hReferent>>
       ELSE IF hReferent[name] = member /\ ~roleOk
       THEN /\ hLast' = Handled("leave", user, member, "raised")
            /\ UNCHANGED <<hPromotions, hReferent>>
       ELSE /\ hLast' = Handled("leave", user, member, "left")
            /\ hReferent' = IF hReferent[name] = member
                            THEN [hReferent EXCEPT ![name] = NoneId]
                            ELSE hReferent
            /\ hPromotions' = [hPromotions EXCEPT ![member, name] = @ - 1]
    /\ UNCHANGED <<fRoles, hOthers>>

\* the referent select of the school's settings, which the staff uses
referent_select(school, member, roleOk) ==
    /\ member # hReferent[school]
    /\ hPromotions[member, school] > 0
    /\ roleOk
    /\ hReferent' = [hReferent EXCEPT ![school] = member]
    /\ hLast' = [op |-> "referent", stranger |-> FALSE, reply |-> "set"]
    /\ UNCHANGED <<hPromotions, fRoles, hOthers>>

\* the schools without promotions nor referent
HTables ==
    /\ hPromotions = [k \in Users \X Schools |-> 0]
    /\ hReferent = [school \in Schools |-> NoneId]
    /\ hLast = [op |-> "none", stranger |-> FALSE, reply |-> "none"]

\* the members of a guild, some of them staff
HInit ==
    /\ HTables
    /\ fRoles \in [Users -> BOOLEAN]
    /\ fView = None
    /\ fLast = None

\* the schools when another subsystem runs
HParked == HTables

HNext ==
    \/ \E user, member \in Users, name \in SchoolNames, dbOk, insertOk \in BOOLEAN :
          join_school(user, member, name, dbOk, insertOk)
    \/ \E user, member \in Users, name \in SchoolNames, dbOk, roleOk \in BOOLEAN :
          leave_school(user, member, name, dbOk, roleOk)
    \/ \E school \in Schools, member \in Users, roleOk \in BOOLEAN :
          referent_select(school, member, roleOk)

(***************************************************************************)
(* Startup                                                                 *)
(***************************************************************************)

\* the values os.getenv("MP2I__DISCORD_BOT_TOKEN") can have: None when the
\* variable is unset, else its text
Tokens == {"unset", "", "token"}

\* the mutant of has_config: an empty config passes
has_config_always == TRUE

\* utils.config.has_config: bool(_config)
has_config == mConfig = "loaded"

\* "not (token := os.getenv(...))"
token_missing == mToken \in {"unset", ""}

\* database.setup.test_connection, engine.connect() raising or not
test_connection(connectOk) == mEngine /\ connectOk

\* main down to the configuration of the logger: an exception other than
\* FileNotFoundError leaves main
main_logging(outcome) ==
    /\ mPc = "logging"
    /\ mPc' = IF outcome = "raises" THEN "raised" ELSE "config"
    /\ UNCHANGED <<mConfig, mToken, mEngine, mTables, mPassed, mBot, mOthers>>

\* "if not config.has_config()"
main_config ==
    /\ mPc = "config"
    /\ IF has_config
       THEN /\ mPc' = "token"
            /\ mPassed' = Append(mPassed, "config")
       ELSE /\ mPc' = "returned"
            /\ UNCHANGED mPassed
    /\ UNCHANGED <<mConfig, mToken, mEngine, mTables, mBot, mOthers>>

\* "if not (token := os.getenv("MP2I__DISCORD_BOT_TOKEN"))"
main_token ==
    /\ mPc = "token"
    /\ IF token_missing
       THEN /\ mPc' = "returned"
            /\ UNCHANGED mPassed
       ELSE /\ mPc' = "connection"
            /\ mPassed' = Append(mPassed, "token")
    /\ UNCHANGED <<mConfig, mToken, mEngine, mTables, mBot, mOthers>>

\* "if not database_setup.test_connection()"
main_test_connection(connectOk) ==
    /\ mPc = "connection"
    /\ IF test_connection(connectOk)
       THEN /\ mPc' = "database"
            /\ mPassed' = Append(mPassed, "connection")
       ELSE /\ mPc' = "returned"
            /\ UNCHANGED mPassed
    /\ UNCHANGED <<mConfig, mToken, mEngine, mTables, mBot, mOthers>>

\* "if not database_setup.initialize_database()": the table is looked for,
\* created when missing and looked for again; an exception of the inspection
\* or of create_all, which may have created some tables, makes it False
main_initialize_database(inspectOk, createOk, partial) ==
    /\ mPc = "database"
    /\ mTables' = IF mEngine /\ inspectOk /\ ~mTables
                  THEN (IF createOk THEN TRUE ELSE partial)
                  ELSE mTables
    /\ IF mEngine /\ inspectOk /\ (mTables \/ createOk) /\ mTables'
       THEN /\ mPc' = "start"
            /\ mPassed' = Append(mPassed, "database")
       ELSE /\ mPc' = "returned"
            /\ UNCHANGED mPassed
    /\ UNCHANGED <<mConfig, mToken, mEngine, mBot, mOthers>>

\* "bot: Bot = Bot()"
main_create_bot ==
    /\ mPc = "start"
    /\ mBot = "none"
    /\ mBot' = "created"
    /\ UNCHANGED <<mConfig, mToken, mEngine, mTables, mPc, mPassed, mOthers>>

\* "await bot.start(token)"
main_start ==
    /\ mPc = "start"
    /\ mBot = "created"
    /\ mBot' = "started"
    /\ mPc' = "running"
    /\ UNCHANGED <<mConfig, mToken, mEngine, mTables, mPassed, mOthers>>

\* the process before main runs, in any environment
MInit ==
    /\ mConfig \in {"empty", "loaded"}
    /\ mToken \in Tokens
    /\ mEngine \in BOOLEAN
    /\ mTables \in BOOLEAN
    /\ mPc = "logging"
    /\ mPassed = <<>>
    /\ mBot = "none"

\* the startup when another subsystem runs
MParked ==
    /\ mConfig = "loaded"
    /\ mToken = "token"
    /\ mEngine = TRUE
    /\ mTables = TRUE
    /\ mPc = "logging"
    /\ mPassed = <<>>
    /\ mBot = "none"

MNext ==
    \/ \E outcome \in {"configured", "not_found", "raises"} : main_logging(outcome)
    \/ main_config
    \/ main_token
    \/ \E connectOk \in BOOLEAN : main_test_connection(connectOk)
    \/ \E inspectOk, createOk, partial \in BOOLEAN :
          main_initialize_database(inspectOk, createOk, partial)
    \/ main_create_bot
    \/ main_start

(***************************************************************************)
(* Cog loading                                                             *)
(***************************************************************************)

\* what setup_hook reads of a file name: whether it ends with ".py" and whether
\* it starts with "_"
FileNames == [py : BOOLEAN, underscore : BOOLEAN]

\* the listings os.walk can yield
RECURSIVE Listings(_)
Listings(n) ==
    IF n = 0 THEN {<<>>}
    ELSE Listings(n - 1) \cup {Append(l, f) : l \in Listings(n - 1), f \in FileNames}

\* the mutant of the filter: no file is skipped
skipped_never(filename) == FALSE

\* "if not filename.endswith(".py") or filename.startswith("_"): continue"
skipped(filename) == ~filename.py \/ filename.underscore

\* one turn of the loops of setup_hook: the file is skipped, or load_extension
\* is awaited and its exception caught and logged
setup_hook_file(loads) ==
    /\ eSyncs = 0
    /\ eNext <= Len(eFiles)
    /\ eNext' = eNext + 1
    /\ IF skipped(eFiles[eNext])
       THEN UNCHANGED <<eAttempted, eLoaded, eLogged>>
       ELSE /\ eAttempted' = eAttempted \cup {eNext}
            /\ eLoaded' = IF loads THEN eLoaded \cup {eNext} ELSE eLoaded
            /\ eLogged' = IF loads THEN eLogged ELSE eLogged \cup {eNext}
    /\ UNCHANGED <<eFiles, eSyncs, eOthers>>

\* "await self.tree.sync()", after the loops
setup_hook_sync ==
    /\ eSyncs = 0
    /\ eNext > Len(eFiles)
    /\ eSyncs' = eSyncs + 1
    /\ UNCHANGED <<eFiles, eNext, eAttempted, eLoaded, eLogged, eOthers>>

\* setup_hook is entered with some listing of the cogs directory
EInit ==
    /\ eFiles \in Listings(MaxFiles)
    /\ eNext = 1
    /\ eAttempted = {}
    /\ eLoaded = {}
    /\ eLogged = {}
    /\ eSyncs = 0

\* the cog loading when another subsystem runs
EParked ==
    /\ eFiles = <<>>
    /\ eNext = 1
    /\ eAttempted = {}
    /\ eLoaded = {}
    /\ eLogged = {}
    /\ eSyncs = 0

ENext ==
    \/ \E loads \in BOOLEAN : setup_hook_file(loads)
    \/ setup_hook_sync

(***************************************************************************)
(* Message counter                                                         *)
(***************************************************************************)

\* the authors of messages: two registered members, a bot that has a row, and
\* a member that has none
Authors == {"member", "other", "bot", "unregistered"}

\* the authors with a row in "members"
Registered == {"member", "other", "bot"}

\* message.author.bot
is_bot(author) == author = "bot"

\* "not isinstance(message.author, discord.Member) or message.author.bot": in
\* a DM the author is a User
not_counted(author, inGuild) == ~inGuild \/ is_bot(author)

\* MemberWrapper._fetch for the author of the message
author_fetch(author, ok) ==
    IF author \in Registered THEN execute_select(lRows[author], ok) ELSE None

\* the mutant of the new count: the cached count itself
incremented_not(model) == model.message_count

\* "self.__model.message_count + 1"
incremented(model) == model.message_count + 1

\* how many messages have been handled
RECURSIVE SumOver(_, _)
SumOver(f, keys) ==
    IF keys = {} THEN 0
    ELSE LET k == CHOOSE x \in keys : TRUE IN f[k] + SumOver(f, keys \ {k})

\* update_message_counter: the wrapper is built and message_count_increment
\* called with no await in between
update_message_counter(author, inGuild, okFetch, okUpdate) ==
    /\ SumOver(lHandled, Authors) < MaxMessages
    /\ lHandled' = [lHandled EXCEPT ![author] = IF inGuild THEN @ + 1 ELSE @]
    /\ lExecuted' = [lExecuted EXCEPT
                        ![author] = IF inGuild /\ okFetch /\ okUpdate THEN @ + 1 ELSE @]
    /\ lLast' = IF inGuild /\ author \in {"member", "other"}
                THEN "counted" ELSE "ignored"
    /\ IF not_counted(author, inGuild)
       THEN UNCHANGED lRows
       ELSE LET model == author_fetch(author, okFetch)
            IN  IF model = None
                THEN UNCHANGED lRows
                ELSE LET result == execute_update(lRows[author],
                                      [message_count |-> incremented(model)], okUpdate)
                     IN  lRows' = [lRows EXCEPT ![author] = update_row(@, result)]
    /\ UNCHANGED lOthers

\* another handler writes the row in between: the profile editor sets the
\* colour of a member
profile_colour_handler(author, colour, ok) ==
    /\ author \in Registered
    /\ LET result == execute_update(lRows[author], [profile_colour |-> colour], ok)
       IN  lRows' = [lRows EXCEPT ![author] = update_row(@, result)]
    /\ lLast' = "colour"
    /\ UNCHANGED <<lHandled, lExecuted, lOthers>>

\* the rows as registration leaves them, and no message handled yet
LInit ==
    /\ lRows = [a \in Registered |-> MemberModelDefault]
    /\ lHandled = [a \in Authors |-> 0]
    /\ lExecuted = [a \in Authors |-> 0]
    /\ lLast = "none"

\* the message counter when another subsystem runs
LParked == LInit

LNext ==
    \/ \E author \in Authors, inGuild, okFetch, okUpdate \in BOOLEAN :
          update_message_counter(author, inGuild, okFetch, okUpdate)
    \/ \E author \in Authors, colour \in OptIds, ok \in BOOLEAN :
          profile_colour_handler(author, colour, ok)

(***************************************************************************)
(* Specifications                                                          *)
(***************************************************************************)
InitWrapper == WInit /\ PParked /\ RParked /\ VParked /\ TParked /\ SParked /\ FParked /\ HParked /\ MParked /\ EParked /\ LParked
SpecWrapper == InitWrapper /\ [][WNext]_vars

InitPaginator == PInit /\ WParked /\ RParked /\ VParked /\ TParked /\ SParked /\ FParked /\ HParked /\ MParked /\ EParked /\ LParked
SpecPaginator == InitPaginator /\ [][PNext]_vars

InitRegister == RInit /\ WParked /\ PParked /\ VParked /\ TParked /\ SParked /\ FParked /\ HParked /\ MParked /\ EParked /\ LParked
SpecRegister == InitRegister /\ [][RNext]_vars

InitProf == VInit /\ WParked /\ PParked /\ RParked /\ TParked /\ SParked /\ FParked /\ HParked /\ MParked /\ EParked /\ LParked
SpecProf == InitProf /\ [][VNext]_vars

InitTicket == TInit /\ WParked /\ PParked /\ RParked /\ VParked /\ SParked /\ FParked /\ HParked /\ MParked /\ EParked /\ LParked
SpecTicket == InitTicket /\ [][TNext]_vars

InitSuggestion == SInit /\ WParked /\ PParked /\ RParked /\ VParked /\ TParked /\ FParked /\ HParked /\ MParked /\ EParked /\ LParked
SpecSuggestion == InitSuggestion /\ [][SNext]_vars

InitProfile == FInit /\ WParked /\ PParked /\ RParked /\ VParked /\ TParked /\ SParked /\ HParked /\ MParked /\ EParked /\ LParked
SpecProfile == InitProfile /\ [][FNext]_vars

InitSchool == HInit /\ WParked /\ PParked /\ RParked /\ VParked /\ TParked /\ SParked /\ MParked /\ EParked /\ LParked
SpecSchool == InitSchool /\ [][HNext]_vars

InitMain == MInit /\ WParked /\ PParked /\ RParked /\ VParked /\ TParked /\ SParked /\ FParked /\ HParked /\ EParked /\ LParked
SpecMain == InitMain /\ [][MNext]_vars

InitSetupHook == EInit /\ WParked /\ PParked /\ RParked /\ VParked /\ TParked /\ SParked /\ FParked /\ HParked /\ MParked /\ LParked
SpecSetupHook == InitSetupHook /\ [][ENext]_vars

InitCounter == LInit /\ WParked /\ PParked /\ RParked /\ VParked /\ TParked /\ SParked /\ FParked /\ HParked /\ MParked /\ EParked
SpecCounter == InitCounter /\ [][LNext]_vars

(***************************************************************************)
(* C1                                                                      *)
(***************************************************************************)

\* the wrapper whose call returned last holds a model
WLastModel ==
    IF wlast.kind = "member" THEN memberModel[wlast.w] ELSE guildModel[wlast.w]

\* the row behind the wrapper whose call returned last
WLastRow ==
    IF wlast.kind = "member" THEN memberRow ELSE guildRow

\* C1: when a call of message_count_increment, profile_colour=,
\* roles_message_id= or suggestions_message= returns, every field of the
\* cached model of the wrapper equals the value stored in its row, also when
\* the UPDATE of the call failed.
C1_CacheInSync ==
    (wlast.op # "init" /\ WLastModel # None)
        => WLastModel = WLastRow

\* a setter returned after a failed UPDATE
C1_FailedSetterReturned ==
    /\ wlast.op \in {"profile_colour", "roles_message_id", "suggestions_message"}
    /\ ~wlast.ok

(***************************************************************************)
(* C2                                                                      *)
(***************************************************************************)

\* the page is one of the pages, and the buttons built last are disabled
\* exactly on the first and on the last page
PageInBounds ==
    /\ 1 <= pPage
    /\ pPage <= max_page_number(pEntries, pPerPage)
    /\ pView.buttons # NoButtons =>
            /\ pView.buttons.prev_disabled <=> (pPage = 1)
            /\ pView.buttons.next_disabled <=>
                    (pPage = max_page_number(pEntries, pPerPage))

\* _on_prev on page 1 and _on_next on the last page change nothing and send
\* no update
BoundaryClickIsNoOp ==
    /\ (pLast'.op = "prev" /\ pLast'.allowed /\ pPage = 1)
            => (pLast'.sent = "none" /\ UNCHANGED <<pPage, pView, pDisplayed>>)
    /\ (pLast'.op = "next" /\ pLast'.allowed
            /\ pPage = max_page_number(pEntries, pPerPage))
            => (pLast'.sent = "none" /\ UNCHANGED <<pPage, pView, pDisplayed>>)

\* C2: for a paginator built with entries_per_page >= 1 and a page in
\* 1..max_page_number, after any sequence of _on_prev and _on_next the page is
\* in 1..max_page_number; _on_prev on page 1 and _on_next on the last page
\* change nothing and send no update; the previous / next buttons are
\* disabled exactly on the first / last page.
C2_PageBound ==
    PageInBounds /\ [][PageInBounds' /\ BoundaryClickIsNoOp]_vars

\* the author clicked next on the last of several pages
C2_NextOnLastPage ==
    /\ pLast.op = "next"
    /\ pLast.allowed
    /\ pLast.before = max_page_number(pEntries, pPerPage)
    /\ pLast.before > 1
    /\ pView.buttons # NoButtons

(***************************************************************************)
(* C3                                                                      *)
(***************************************************************************)

\* ceil(n / d) for n >= 0 and d >= 1: the least k with k * d >= n
Ceil(n, d) == CHOOSE k \in 0..n : k * d >= n /\ \A j \in 0..n : j * d >= n => k <= j

\* the concatenation of the pages 1..m
RECURSIVE ConcatPages(_)
ConcatPages(m) ==
    IF m = 0 THEN <<>>
    ELSE ConcatPages(m - 1) \o page_entries(pEntries, pPerPage, m)

\* C3: max_page_number is ceil(len(entries) / entries_per_page), 1 when there
\* are no entries; the slices of the pages 1..max_page_number, in order, make
\* up the whole list (so they are consecutive and disjoint); a page holds at
\* most entries_per_page entries and every page but the last exactly that
\* many; the slice a sent paginator has built is the slice of its page.
C3_SplitsExactly ==
    LET n == Len(pEntries)
        m == max_page_number(pEntries, pPerPage)
    IN  /\ m = IF n = 0 THEN 1 ELSE Ceil(n, pPerPage)
        /\ ConcatPages(m) = pEntries
        /\ \A q \in 1..m :
              /\ Len(page_entries(pEntries, pPerPage, q)) <= pPerPage
              /\ q < m => Len(page_entries(pEntries, pPerPage, q)) = pPerPage
              /\ \A i \in 1..Len(page_entries(pEntries, pPerPage, q)) :
                    page_entries(pEntries, pPerPage, q)[i]
                        = pEntries[(q - 1) * pPerPage + i]
        /\ pState = "sent" => pView.entries = page_entries(pEntries, pPerPage, pPage)

\* the last of several pages is shown and is not full
C3_PartialLastPageShown ==
    /\ pState = "sent"
    /\ pLast.op = "next"
    /\ pPage = max_page_number(pEntries, pPerPage)
    /\ pPage >= 2
    /\ pView.entries # <<>>
    /\ Len(pView.entries) < pPerPage

(***************************************************************************)
(* C4                                                                      *)
(***************************************************************************)

\* C4: interaction_check returns True exactly when the interacting user is
\* the author of the paginator; for any other user the refusal is sent, the
\* check returns False and the page and what is displayed are unchanged.
C4_OnlyAuthorDrives ==
    [][pLast'.op \in {"prev", "next"} =>
        /\ pLast'.allowed <=> (pLast'.user = pAuthor)
        /\ pLast'.user # pAuthor =>
              /\ pLast'.sent = "refusal"
              /\ UNCHANGED <<pPage, pView, pDisplayed>>]_vars

\* somebody else than the author clicked a button of a paginator of several
\* pages and was refused
C4_StrangerRefused ==
    /\ pLast.op \in {"prev", "next"}
    /\ pLast.user # pAuthor
    /\ pLast.sent = "refusal"
    /\ pLast.before < max_page_number(pEntries, pPerPage)

(***************************************************************************)
(* C5                                                                      *)
(***************************************************************************)

\* the table the register() call that ended last is about, and its key
RLastTable ==
    IF rLast.op = "guild" THEN rGuilds
    ELSE IF rLast.op = "user" THEN rUsers ELSE rMembers

RLastKey ==
    IF rLast.op = "guild" THEN rLast.g
    ELSE IF rLast.op = "user" THEN rLast.u ELSE <<rLast.g, rLast.u>>

\* no key has two rows
NoDuplicateRow ==
    /\ \A g \in RegGuilds : Rows(rGuilds, g) <= 1
    /\ \A u \in RegUsers : Rows(rUsers, u) <= 1
    /\ \A g \in RegGuilds, u \in RegUsers : Rows(rMembers, <<g, u>>) <= 1

\* C5 as claimed, for the calls all of whose statements the database
\* executed: after a handler built a wrapper and called register(), the table
\* holds exactly one row for the key and no InsertException was raised.
C5_NeverRaises ==
    (rLast.op # "none" /\ rLast.dbok) =>
        /\ rLast.raised = "none"
        /\ Rows(RLastTable, RLastKey) = 1

\* C5 as amended: register() on a wrapper that holds a model performs no
\* INSERT, raises nothing and changes no table; no key ever has two rows;
\* a register() that returns leaves exactly one row for its key; and one that
\* raises InsertException had its INSERT refused: a statement failed in the
\* database, or the call is a member's and the guild of the member has no row.
C5_RegisterIdempotent ==
    /\ [](/\ NoDuplicateRow
          /\ (rLast.op # "none" /\ rLast.raised = "none")
                => Rows(RLastTable, RLastKey) = 1
          /\ (rLast.op # "none" /\ rLast.raised # "none")
                => \/ ~rLast.dbok
                   \/ rLast.op \in {"member", "again"} /\ Rows(rGuilds, rLast.g) = 0)
    /\ [][(rLast'.op # "none" /\ rLast'.found)
            => /\ rLast'.inserts = {}
               /\ rLast'.raised = "none"
               /\ UNCHANGED <<rGuilds, rUsers, rMembers>>]_vars

\* a handler found the row another handler had inserted, and register() was
\* called again on a wrapper whose own register() had inserted the row
C5_SecondRegister ==
    /\ rLast.op = "again"
    /\ rLast.found
    /\ rLast.dbok
    /\ Rows(rMembers, <<rLast.g, rLast.u>>) = 1

(***************************************************************************)
(* C6                                                                      *)
(***************************************************************************)

\* the handler has ended
VEnded == vPc \in {"returned", "raised"}

\* the ways the verification fails without an exception
VFailures == {"db_down", "no_academy", "mail_failure", "wrong_code", "timeout"}

\* C6 as claimed, its part about exceptions: when any call of the handler
\* raised, the role is not added.
C6_NoRoleOnAnyException ==
    vRaised # "none" => ~vRole

\* C6 as amended: the role is added only after, in this order, a reply ended
\* with the domain name of an academy of the guild, send_email returned True
\* and the next reply equalled the code; on no matching academy, database or
\* mail failure, wrong code or timeout the role is not added and the handler
\* sends the explanation, which is the last message the member gets unless a
\* send raised; an exception raised before add_roles returned leaves the role
\* not added, and an exception inside the try block makes the handler send
\* the error message.
C6_RoleOnlyAfterVerification ==
    /\ vRole => vTrail = <<"academy", "mail", "code", "role">>
    /\ vEnd \in VFailures =>
          /\ ~vRole
          /\ \E i \in 1..Len(vSent) : vSent[i] = Explanation(vEnd)
          /\ vRaised = "none" =>
                (vLost = {} /\ vSent[Len(vSent)] = Explanation(vEnd))
    /\ (vRaised \notin {"none", "msg_role_given"}) => ~vRole
    /\ (VEnded /\ vRaised \notin {"none", "msg_greetings", "msg_timeout"}) =>
          vSent[Len(vSent)] = "msg_error"

\* the verification went through: the role was added and the member told
C6_RoleGiven ==
    /\ vRole
    /\ vPc = "returned"
    /\ vRaised = "none"
    /\ vSent = <<"msg_greetings", "msg_followup", "msg_role_given">>

(***************************************************************************)
(* C7                                                                      *)
(***************************************************************************)

\* C7: at every moment the member has at most tickets.max tickets with
\* closed = False, for every interleaving of the member's ticket:level
\* interactions, and an interaction answered 'Vous avez trop de tickets en
\* activité.' created neither a thread nor a row.
C7_TicketLimit ==
    /\ Cardinality(open_tickets) <= max_ticket
    /\ \A i \in Interactions :
          tReply[i] = "too_many" =>
              (tThread[i] = 0 /\ \A t \in tTickets : t.thread_id # tThread[i])

\* two interactions passed the check before either row was inserted, and
\* both rows are there
C7_BothInserted ==
    /\ max_ticket = 1
    /\ Cardinality(open_tickets) = 2
    /\ \A i \in Interactions : tReply[i] \in {"opened", "none"}

(***************************************************************************)
(* C8                                                                      *)
(***************************************************************************)

\* C8: once the suggestion's status is CLOSED, ACCEPTED or REJECTED, no step
\* of any close modal changes its status, staff_id, staff_description or
\* handled date, a modal opened while the suggestion was OPEN included.
C8_ClosingIsFinal ==
    [][sRow.suggestion_status # "OPEN" => sRow' = sRow]_vars

\* the row of a closed suggestion was written a second time
C8_ClosedTwice ==
    /\ sRow.suggestion_status # "OPEN"
    /\ sRow.suggestion_handled_date = 2

(***************************************************************************)
(* C9                                                                      *)
(***************************************************************************)

\* C9: a click on "Modifier le profil" by a user who is not the member of the
\* profile and holds neither Administrateur nor Modérateur is answered 'Vous
\* ne pouvez pas interagir avec ce profil.' and gets no ProfileEditorView.
C9_EditorOnlyOwnerOrStaff ==
    (fLast # None /\ fLast.user # fLast.member /\ ~fRoles[fLast.user]) =>
        fLast.reply = "refused"

\* a user without the roles got the editor of another member's profile
C9_StrangerGotEditor ==
    /\ fLast # None
    /\ fLast.user # fLast.member
    /\ ~fRoles[fLast.user]
    /\ fLast.reply = "editor"

(***************************************************************************)
(* C10                                                                     *)
(***************************************************************************)

C11_StartupGate ==
    /\ mBot # "none" =>
          /\ mPassed = <<"config", "token", "connection", "database">>
          /\ mConfig = "loaded"
          /\ mToken = "token"
          /\ mEngine
          /\ mTables
    /\ mPc \in {"returned", "raised"} => mBot = "none"
    /\ mPc # "start" => mBot \in {"none", "started"}

\* every check passed and the bot was started
C11_Started ==
    /\ mBot = "started"
    /\ mPc = "running"

(***************************************************************************)
(* C12                                                                     *)
(***************************************************************************)

\* the files of the listing that end with ".py" and do not start with "_"
CogFiles == {i \in 1..Len(eFiles) : eFiles[i].py /\ ~eFiles[i].underscore}

\* C12: load_extension is called for the .py files whose name does not start
\* with "_" and for no other, a failed load is logged and the files after it
\* are still attempted, and the tree is synced once, after every attempt.
C12_FaultIsolatedLoading ==
    /\ eAttempted = {i \in CogFiles : i < eNext}
    /\ eLogged = eAttempted \ eLoaded
    /\ eSyncs <= 1
    /\ eSyncs = 1 => (eNext > Len(eFiles) /\ eAttempted = CogFiles)

\* a load failed, a later file was loaded all the same, and the tree is synced
C12_LoadedAfterFailure ==
    /\ eSyncs = 1
    /\ \E i \in eLogged, j \in eLoaded : i < j
    /\ \E k \in 1..Len(eFiles) : k \notin eAttempted

(***************************************************************************)
(* C13                                                                     *)
(***************************************************************************)

\* C13 as claimed: after n guild messages of a registered member that is not
\* a bot have been handled, the stored message_count has grown by exactly n.
C13_GrownByExactlyN ==
    \A a \in {"member", "other"} : lRows[a].message_count = lHandled[a]

\* C13 as amended: the stored message_count of a registered member that is
\* not a bot has grown by exactly the number of the member's handled guild
\* messages whose SELECT and UPDATE the database executed, at most n, whatever
\* other handlers wrote in between; the row of a bot is never counted up, and
\* a message from a bot, from a DM or from an unregistered member changes no
\* row.
C13_NoLostUpdate ==
    /\ [](/\ \A a \in {"member", "other"} :
                /\ lRows[a].message_count = lExecuted[a]
                /\ lExecuted[a] <= lHandled[a]
          /\ lRows["bot"].message_count = 0)
    /\ [][lLast' = "ignored" => lRows' = lRows]_vars

\* two messages of the member were counted, around a message of another
\* member and a change of the member's colour
C13_CountedTwice ==
    /\ lRows["member"].message_count = 2
    /\ lHandled["member"] = 2
    /\ lRows["member"].profile_colour # NoneId
    /\ lRows["other"].message_count = 1

====
